---- MODULE Spec2Model ----
(***************************************************************************)
(* Model of the bnbscraper crawl (src/src/main.rs): landing-page fetch,    *)
(* link discovery, concurrent per-link fetch + extraction, global merge    *)
(* with (name, item_type) dedup, grouping by discount label and output.    *)
(*                                                                         *)
(* Conventions:                                                            *)
(*  - a Rust Option<T> is a sequence of length 0 (None) or 1 (Some);       *)
(*  - a text the program inspects character by character (hrefs of the     *)
(*    landing page, price texts) is a sequence of one-character strings;   *)
(*    a text the program only copies and compares is a TLA+ string;        *)
(*  - a finite f32 price is the integer number of hundredths it denotes.   *)
(***************************************************************************)
EXTENDS Integers, Sequences, FiniteSets, TLC

VARIABLES
    pc,          \* position of main: start, discover, schedule, crawl, group, write, exit
    exit,        \* process status: running, ok, err (main returned Err), panic
    res,         \* Option: result of the landing-page fetch (line 40): "Ok" / "Err"
    document,    \* hrefs (Option each) of the landing page's anchors, in document order
    uniq_links,  \* Vec<String> of absolute URLs (line 44)
    task,        \* per link index: "pending" / "done" (the FuturesUnordered set)
    resp,        \* per link index: Option of the fetch outcome of that link
    results,     \* per link index: Option of the Result its process_link returned
    all_items,   \* Vec<BnBItem>, the global collection (line 48)
    completed,   \* link indices in the order their results arrived at line 54
    grouped,     \* HashMap discount -> Vec<BnBItem> (line 67)
    output,      \* the output file: "absent", "partial" or "written", and its data
    product,     \* the product card under extraction (process_product's argument)
    bnb_item,    \* the record process_product fills in place
    xpc          \* position inside process_product

vars == <<pc, exit, res, document, uniq_links, task, resp, results, all_items,
          completed, grouped, output, product, bnb_item, xpc>>

crawlVars == <<pc, exit, res, document, uniq_links, task, resp, results, all_items,
               completed, grouped, output>>

extractVars == <<product, bnb_item, xpc>>

----------------------------------------------------------------------------
(* Bounds of the model.                                                    *)

MaxAnchors == 3

MaxCards == 2

----------------------------------------------------------------------------
(* Strings.                                                                *)

ROOT_URL ==
    << "h","t","t","p","s",":","/","/","w","w","w",".","b","a","t","h","a","n","d",
       "b","o","d","y","w","o","r","k","s",".","m","x" >>

WWW == << "w","w","w" >>

\* str::contains: sub occurs in s as a contiguous run of characters.
StrContains(s, sub) ==
    \E i \in 0 .. (Len(s) - Len(sub)) : SubSeq(s, i + 1, i + Len(sub)) = sub

\* str::replace("$", ""): every '$' removed.
StripDollar(text) == SelectSeq(text, LAMBDA c : c # "$")

Digits == { "0","1","2","3","4","5","6","7","8","9" }

DigitVal(c) ==
    CASE c = "0" -> 0 [] c = "1" -> 1 [] c = "2" -> 2 [] c = "3" -> 3 [] c = "4" -> 4
      [] c = "5" -> 5 [] c = "6" -> 6 [] c = "7" -> 7 [] c = "8" -> 8 [] c = "9" -> 9

RECURSIVE DecimalValue(_)
DecimalValue(ds) ==
    IF ds = << >> THEN 0
    ELSE 10 * DecimalValue(SubSeq(ds, 1, Len(ds) - 1)) + DigitVal(ds[Len(ds)])

\* an f32: a finite value in hundredths, or one of the non-finite values
Finite(h) == [ class |-> "finite", hundredths |-> h ]

NonFinite(class) == [ class |-> class, hundredths |-> 0 ]

\* ASCII lower case of the letters that spell inf, infinity and nan
Lower(c) ==
    CASE c = "I" -> "i" [] c = "N" -> "n" [] c = "F" -> "f" [] c = "T" -> "t"
      [] c = "Y" -> "y" [] c = "A" -> "a" [] OTHER -> c

\* str::parse::<f32>(): [+-]? then inf, infinity or nan in any letter case, or
\* digit* ('.' digit*)? with at least one digit; nothing is trimmed.  Returns
\* Option of the value (two fraction digits kept).  Exponents are not modelled:
\* no price text of the model holds an 'e'.
ParseF32(s) ==
    LET signed   == s # << >> /\ s[1] \in { "+", "-" }
        negative == signed /\ s[1] = "-"
        body     == IF signed THEN Tail(s) ELSE s
        lower    == [ i \in DOMAIN body |-> Lower(body[i]) ]
        dots     == { i \in DOMAIN body : body[i] = "." }
        wellform == /\ \A i \in DOMAIN body : body[i] \in Digits \cup { "." }
                    /\ Cardinality(dots) <= 1
                    /\ \E i \in DOMAIN body : body[i] \in Digits
        dot      == IF dots = {} THEN Len(body) + 1 ELSE CHOOSE i \in dots : TRUE
        whole    == SubSeq(body, 1, dot - 1)
        frac     == SubSeq(body, dot + 1, Len(body))
        d1       == IF Len(frac) >= 1 THEN DigitVal(frac[1]) ELSE 0
        d2       == IF Len(frac) >= 2 THEN DigitVal(frac[2]) ELSE 0
        mag      == 100 * DecimalValue(whole) + 10 * d1 + d2
    IN  IF lower = << "n","a","n" >> THEN << NonFinite("nan") >>
        ELSE IF lower \in { << "i","n","f" >>, << "i","n","f","i","n","i","t","y" >> }
        THEN << NonFinite(IF negative THEN "-inf" ELSE "inf") >>
        ELSE IF ~wellform THEN << >>
        ELSE IF negative THEN << Finite(0 - mag) >> ELSE << Finite(mag) >>

----------------------------------------------------------------------------
(* BnBItem and its equality.                                               *)

Default ==
    [ name |-> "", item_type |-> "", link |-> "", price |-> Finite(0),
      price_promo |-> Finite(0), discount |-> "" ]

\* A PartialEq that compares every field (what #[derive(PartialEq)] would give).
BnBItemEqAllFields(a, b) == a = b

\* impl PartialEq for BnBItem
BnBItemEq(a, b) == a.name = b.name /\ a.item_type = b.item_type

\* Vec::contains with the PartialEq above
VecContains(v, x) == \E i \in DOMAIN v : BnBItemEq(v[i], x)

----------------------------------------------------------------------------
(* Record extraction from one product card.  A card is the result of the   *)
(* five node queries of process_product:                                   *)
(*   caption  Option of [text, href : Option string]  (caption's first a)  *)
(*   form     Option of text   (product-item__form's first li)             *)
(*   price    Option of chars  (product-item__price's first span)          *)
(*   promo    Option of chars  (product-item__price's first .price-new)    *)
(*   flag     Option of text   (product-item__flags--discounts' first p)   *)
(* Every extraction step returns [panic, item]: the record after the step, *)
(* or panic = TRUE when the step unwinds.                                  *)

Proceed(item) == [ panic |-> FALSE, item |-> item ]

Unwind(item) == [ panic |-> TRUE, item |-> item ]

\* extract_name_and_link's closure with unwrap_or_default() in place of unwrap().
CaptionHandlerLenient(caption, item) ==
    Proceed([ item EXCEPT !.name = caption.text,
                          !.link = IF caption.href = << >> THEN "" ELSE caption.href[1] ])

\* extract_name_and_link's closure: name, then attr("href").unwrap()
CaptionHandler(caption, item) ==
    IF caption.href = << >>
    THEN Unwind([ item EXCEPT !.name = caption.text ])
    ELSE Proceed([ item EXCEPT !.name = caption.text, !.link = caption.href[1] ])

ItemTypeHandler(item_type, item) == Proceed([ item EXCEPT !.item_type = item_type ])

PriceHandler(price, item) ==
    LET parsed_price == ParseF32(StripDollar(price))
    IN  IF parsed_price # << >>
        THEN Proceed([ item EXCEPT !.price = parsed_price[1] ])
        ELSE Proceed(item)

\* extract_price_promo's closure writing the field of extract_price's closure.
PricePromoHandlerWrongField(price, item) ==
    LET parsed_price == ParseF32(StripDollar(price))
    IN  IF parsed_price # << >>
        THEN Proceed([ item EXCEPT !.price = parsed_price[1] ])
        ELSE Proceed(item)

PricePromoHandler(price, item) ==
    LET parsed_price == ParseF32(StripDollar(price))
    IN  IF parsed_price # << >>
        THEN Proceed([ item EXCEPT !.price_promo = parsed_price[1] ])
        ELSE Proceed(item)

DiscountHandler(discount, item) == Proceed([ item EXCEPT !.discount = discount ])

\* process_attribute: the handler runs only on a found node. `handled` is the
\* caller's closure applied to the found node; it is read only when there is one.
ProcessAttribute(link_node, handled, item) ==
    IF link_node # << >> THEN handled ELSE Proceed(item)

ExtractNameAndLink(card, item) ==
    ProcessAttribute(card.caption, CaptionHandler(card.caption[1], item), item)

ExtractItemType(card, item) ==
    ProcessAttribute(card.form, ItemTypeHandler(card.form[1], item), item)

ExtractPrice(card, item) ==
    ProcessAttribute(card.price, PriceHandler(card.price[1], item), item)

ExtractPricePromo(card, item) ==
    ProcessAttribute(card.promo, PricePromoHandler(card.promo[1], item), item)

ExtractDiscount(card, item) ==
    ProcessAttribute(card.flag, DiscountHandler(card.flag[1], item), item)

\* process_product: the five steps in order; a step that unwinds ends it.
ProcessProduct(card, item) ==
    LET s1 == ExtractNameAndLink(card, item)
        s2 == ExtractItemType(card, s1.item)
        s3 == ExtractPrice(card, s2.item)
        s4 == ExtractPricePromo(card, s3.item)
        s5 == ExtractDiscount(card, s4.item)
    IN  IF s1.panic THEN s1
        ELSE IF s2.panic THEN s2
        ELSE IF s3.panic THEN s3
        ELSE IF s4.panic THEN s4
        ELSE s5

----------------------------------------------------------------------------
(* process_link: the fetch outcome of a link is Err, or Ok with the page's *)
(* product cards in document order.                                        *)

FetchErr == [ ok |-> FALSE, page |-> << >> ]

FetchOk(page) == [ ok |-> TRUE, page |-> page ]

\* lines 87-96 without the contains() test: every extracted record is kept.
RECURSIVE ProductsLoopNoDedup(_, _, _)
ProductsLoopNoDedup(products, i, products_in_link) ==
    IF i > Len(products) THEN [ kind |-> "Ok", products |-> products_in_link ]
    ELSE LET r == ProcessProduct(products[i], Default)
         IN  IF r.panic THEN [ kind |-> "Panic", products |-> << >> ]
             ELSE ProductsLoopNoDedup(products, i + 1, Append(products_in_link, r.item))

\* lines 87-96: extract each card, keep the record unless the list holds its equal.
RECURSIVE ProductsLoop(_, _, _)
ProductsLoop(products, i, products_in_link) ==
    IF i > Len(products) THEN [ kind |-> "Ok", products |-> products_in_link ]
    ELSE LET r == ProcessProduct(products[i], Default)
         IN  IF r.panic THEN [ kind |-> "Panic", products |-> << >> ]
             ELSE ProductsLoop(products, i + 1,
                               IF VecContains(products_in_link, r.item)
                               THEN products_in_link
                               ELSE Append(products_in_link, r.item))

\* process_link with .unwrap() on the fetch in place of `?`.
ProcessLinkUnwrapFetch(response) ==
    IF ~response.ok THEN [ kind |-> "Panic", products |-> << >> ]
    ELSE ProductsLoop(response.page, 1, << >>)

\* process_link: `?` turns a fetch error into Err; otherwise the products loop.
ProcessLink(response) ==
    IF ~response.ok THEN [ kind |-> "Err", products |-> << >> ]
    ELSE ProductsLoop(response.page, 1, << >>)

----------------------------------------------------------------------------
(* main's merge loop body (lines 55-61).                                   *)

\* the inner for loop with `break` in place of skipping a duplicate.
RECURSIVE MergeProductsBreak(_, _, _)
MergeProductsBreak(items, products, i) ==
    IF i > Len(products) THEN items
    ELSE IF VecContains(items, products[i]) THEN items
    ELSE MergeProductsBreak(Append(items, products[i]), products, i + 1)

\* the inner for loop testing membership in the collection as it was before
\* this link's records (filter against a snapshot, then extend).
MergeProductsSnapshot(items, products, i) ==
    items \o SelectSeq(SubSeq(products, i, Len(products)),
                       LAMBDA p : ~VecContains(items, p))

\* lines 56-60: push each product the collection does not contain yet.
RECURSIVE MergeProducts(_, _, _)
MergeProducts(items, products, i) ==
    IF i > Len(products) THEN items
    ELSE MergeProducts(IF VecContains(items, products[i])
                       THEN items
                       ELSE Append(items, products[i]),
                       products, i + 1)

\* lines 55-61: an Ok result is merged, an Err result is dropped.
HandleResult(items, result) ==
    IF result.kind = "Ok" THEN MergeProducts(items, result.products, 1) ELSE items

----------------------------------------------------------------------------
(* Link discovery (get_unique_links).                                      *)

\* .map(|node| node.attr("href").unwrap()).collect::<HashSet<_>>()
UniqueHrefs(anchors) == { anchors[i][1] : i \in DOMAIN anchors }

\* the chain with .filter after .map: the test sees the prefixed URL.
GetUniqueLinksFilterLast(anchors) ==
    { u \in { ROOT_URL \o h : h \in UniqueHrefs(anchors) } : ~StrContains(u, WWW) }

\* .filter(|link| !link.contains("www")).map(|link| format!("{}{}", ROOT_URL, link))
GetUniqueLinks(anchors) ==
    { ROOT_URL \o h : h \in { l \in UniqueHrefs(anchors) : ~StrContains(l, WWW) } }

\* The Vecs a HashSet's iteration can collect into: every order, no repeats.
Orders(S) ==
    { v \in [ 1 .. Cardinality(S) -> S ] : \A i, j \in DOMAIN v : v[i] = v[j] => i = j }

----------------------------------------------------------------------------
(* Landing fetch, stream exhaustion, grouping.                             *)

\* line 40 swallowing the error and going on with an empty body.
AfterLandingIgnoreErr(r) == [ pc |-> "discover", exit |-> "running" ]

\* line 40: `?` returns the fetch error from main.
AfterLanding(r) ==
    IF r.ok THEN [ pc |-> "discover", exit |-> "running" ]
    ELSE [ pc |-> "exit", exit |-> "err" ]

\* `if let Some(..)` in place of `while let Some(..)`: the first result ends it.
StreamExhaustedAfterFirst(tasks) == \E l \in DOMAIN tasks : tasks[l] = "done"

\* line 54: next() yields None once no future is left in the set.
StreamExhausted(tasks) == \A l \in DOMAIN tasks : tasks[l] = "done"

EmptyMap == [ k \in {} |-> << >> ]

\* lines 68-73 with insert(key, vec![item]) in place of entry().or_insert_with().push().
RECURSIVE GroupLoopInsert(_, _, _)
GroupLoopInsert(items, i, map) ==
    IF i > Len(items) THEN map
    ELSE LET key == items[i].discount
         IN  GroupLoopInsert(items, i + 1,
                 IF key \in DOMAIN map
                 THEN [ map EXCEPT ![key] = << items[i] >> ]
                 ELSE map @@ (key :> << items[i] >>))

\* lines 68-73: entry(discount).or_insert_with(Vec::new).push(item)
RECURSIVE GroupLoop(_, _, _)
GroupLoop(items, i, map) ==
    IF i > Len(items) THEN map
    ELSE LET key == items[i].discount
         IN  GroupLoop(items, i + 1,
                 IF key \in DOMAIN map
                 THEN [ map EXCEPT ![key] = Append(@, items[i]) ]
                 ELSE map @@ (key :> << items[i] >>))

----------------------------------------------------------------------------
(* Inputs.                                                                 *)

\* hrefs of landing-page anchors: a path, a path with "ww" only, a full URL
\* holding "www".
AnchorHrefs ==
    { << "/","a" >>, << "/","w","w" >>, << "/","/","w","w","w",".","x" >> }

\* an anchor's attr("href"): None or Some(href)
Anchors == { << >> } \cup { << h >> : h \in AnchorHrefs }

SeqsUpTo(S, n) == UNION { [ 1 .. k -> S ] : k \in 0 .. n }

Documents == SeqsUpTo(Anchors, MaxAnchors)

LandingResponses ==
    { [ ok |-> FALSE, anchors |-> << >> ] } \cup
    { [ ok |-> TRUE, anchors |-> d ] : d \in Documents }

Card(caption, form, price, promo, flag) ==
    [ caption |-> caption, form |-> form, price |-> price, promo |-> promo,
      flag |-> flag ]

Caption(text, href) == [ text |-> text, href |-> href ]

NoCard == Card(<< >>, << >>, << >>, << >>, << >>)

\* product cards of the link pages
CardA  == Card(<< Caption("A", << "/p1" >>) >>, << "x" >>, << << "$","1" >> >>,
               << >>, << >>)

\* same name and item type as CardA; link, prices and discount differ
CardA2 == Card(<< Caption("A", << "/p2" >>) >>, << "x" >>, << << "$","2" >> >>,
               << << "$","1",".","5" >> >>, << "2x1" >>)

CardB  == Card(<< Caption("B", << "/p3" >>) >>, << "x" >>, << << "N","/","A" >> >>,
               << >>, << "10% off" >>)

\* same name as CardA, another item type
CardAy == Card(<< Caption("A", << "/p4" >>) >>, << "y" >>, << >>, << >>,
               << "10% off" >>)

\* the caption's link carries no href
CardNoHref == Card(<< Caption("C", << >>) >>, << "x" >>, << >>, << >>, << >>)

PageCards == { CardA, CardA2, CardB, CardAy, CardNoHref }

Pages == SeqsUpTo(PageCards, MaxCards)

Responses == { FetchErr } \cup { FetchOk(p) : p \in Pages }

\* cards for the extraction of a single product: every node present or absent
CaptionNodes == { << >>, << Caption("A", << "/p1" >>) >>, << Caption("A", << >>) >> }

FormNodes == { << >>, << "x" >> }

PriceTexts ==
    { << "$","1","9",".","9","9" >>, << "N","/","A" >>, << "1","$","5" >>, << "$" >>,
      << "N","a","N" >> }

PriceNodes == { << >> } \cup { << t >> : t \in PriceTexts }

FlagNodes == { << >>, << "10% off" >> }

AllCards ==
    { Card(c, f, p, q, d) :
        c \in CaptionNodes, f \in FormNodes, p \in PriceNodes, q \in PriceNodes,
        d \in FlagNodes }

----------------------------------------------------------------------------
(* The run of main.                                                        *)

Output(state, data) == [ state |-> state, data |-> data ]

ExtractIdle == product = NoCard /\ bnb_item = Default /\ xpc = "idle"

InitCrawl ==
    /\ pc = "start"
    /\ exit = "running"
    /\ res = << >>
    /\ document = << >>
    /\ uniq_links = << >>
    /\ task = << >>
    /\ resp = << >>
    /\ results = << >>
    /\ all_items = << >>
    /\ completed = << >>
    /\ grouped = EmptyMap
    /\ output = Output("absent", EmptyMap)

Init == InitCrawl /\ ExtractIdle

\* line 40: the landing page is fetched; line 42-43: its anchors are found.
FetchLanding ==
    /\ pc = "start"
    /\ \E r \in LandingResponses :
         /\ res' = << IF r.ok THEN "Ok" ELSE "Err" >>
         /\ document' = r.anchors
         /\ pc' = AfterLanding(r).pc
         /\ exit' = AfterLanding(r).exit
    /\ UNCHANGED <<uniq_links, task, resp, results, all_items, completed, grouped,
                   output>>
    /\ UNCHANGED extractVars

\* line 44: get_unique_links; an anchor without href unwinds at the unwrap.
Discover ==
    /\ pc = "discover"
    /\ IF \E i \in DOMAIN document : document[i] = << >>
       THEN /\ pc' = "exit"
            /\ exit' = "panic"
            /\ UNCHANGED uniq_links
       ELSE /\ uniq_links' \in Orders(GetUniqueLinks(document))
            /\ pc' = "schedule"
            /\ UNCHANGED exit
    /\ UNCHANGED <<res, document, task, resp, results, all_items, completed, grouped,
                   output>>
    /\ UNCHANGED extractVars

\* lines 48-52: one process_link future per link, all in the FuturesUnordered.
\* The landing document is not read again and is dropped here.
Schedule ==
    /\ pc = "schedule"
    /\ task' = [ l \in DOMAIN uniq_links |-> "pending" ]
    /\ resp' = [ l \in DOMAIN uniq_links |-> << >> ]
    /\ results' = [ l \in DOMAIN uniq_links |-> << >> ]
    /\ document' = << >>
    /\ pc' = "crawl"
    /\ UNCHANGED <<exit, res, uniq_links, all_items, completed, grouped, output>>
    /\ UNCHANGED extractVars

\* line 54-62, one iteration: the fetch of link l resolves, process_link runs to
\* its end and the loop body handles its result; all in one poll of the stream.
Complete(l) ==
    /\ pc = "crawl"
    /\ task[l] = "pending"
    /\ \E r \in Responses :
         LET result == ProcessLink(r)
         IN  /\ resp' = [ resp EXCEPT ![l] = << r >> ]
             /\ IF result.kind = "Panic"
                THEN /\ pc' = "exit"
                     /\ exit' = "panic"
                     /\ UNCHANGED <<task, results, all_items, completed>>
                ELSE /\ task' = [ task EXCEPT ![l] = "done" ]
                     /\ results' = [ results EXCEPT ![l] = << result >> ]
                     /\ all_items' = HandleResult(all_items, result)
                     /\ completed' = Append(completed, l)
                     /\ UNCHANGED <<pc, exit>>
    /\ UNCHANGED <<res, document, uniq_links, grouped, output>>
    /\ UNCHANGED extractVars

\* line 54: the stream is exhausted and the loop ends.
LoopExit ==
    /\ pc = "crawl"
    /\ StreamExhausted(task)
    /\ pc' = "group"
    /\ UNCHANGED <<exit, res, document, uniq_links, task, resp, results, all_items,
                   completed, grouped, output>>
    /\ UNCHANGED extractVars

\* lines 67-73
Group ==
    /\ pc = "group"
    /\ grouped' = GroupLoop(all_items, 1, EmptyMap)
    /\ pc' = "write"
    /\ UNCHANGED <<exit, res, document, uniq_links, task, resp, results, all_items,
                   completed, output>>
    /\ UNCHANGED extractVars

\* lines 75-78: File::create fails, or to_writer fails on the created file, or
\* the grouping is written and main returns Ok.
Write ==
    /\ pc = "write"
    /\ \E outcome \in { "create_err", "write_err", "ok" } :
         /\ output' = CASE outcome = "create_err" -> output
                        [] outcome = "write_err"  -> Output("partial", EmptyMap)
                        [] outcome = "ok"         -> Output("written", grouped)
         /\ exit' = IF outcome = "ok" THEN "ok" ELSE "err"
    /\ pc' = "exit"
    /\ UNCHANGED <<res, document, uniq_links, task, resp, results, all_items, completed,
                   grouped>>
    /\ UNCHANGED extractVars

Next ==
    \/ FetchLanding
    \/ Discover
    \/ Schedule
    \/ \E l \in DOMAIN task : Complete(l)
    \/ LoopExit
    \/ Group
    \/ Write

Spec == Init /\ [][Next]_vars

\* the runtime keeps polling main: once the stream is exhausted the loop ends
FairSpec == Spec /\ WF_vars(LoopExit)

----------------------------------------------------------------------------
(* process_product on one card, step by step (lines 99-105).               *)

InitExtract ==
    /\ InitCrawl
    /\ product \in AllCards
    /\ bnb_item = Default
    /\ xpc = "extract_name_and_link"

ExtractStep(at, r, next) ==
    /\ xpc = at
    /\ bnb_item' = r.item
    /\ xpc' = IF r.panic THEN "panic" ELSE next
    /\ UNCHANGED product
    /\ UNCHANGED crawlVars

StepNameAndLink ==
    ExtractStep("extract_name_and_link", ExtractNameAndLink(product, bnb_item),
                "extract_item_type")

StepItemType ==
    ExtractStep("extract_item_type", ExtractItemType(product, bnb_item), "extract_price")

StepPrice ==
    ExtractStep("extract_price", ExtractPrice(product, bnb_item), "extract_price_promo")

StepPricePromo ==
    ExtractStep("extract_price_promo", ExtractPricePromo(product, bnb_item),
                "extract_discount")

StepDiscount ==
    ExtractStep("extract_discount", ExtractDiscount(product, bnb_item), "done")

NextExtract ==
    \/ StepNameAndLink
    \/ StepItemType
    \/ StepPrice
    \/ StepPricePromo
    \/ StepDiscount

SpecExtract == InitExtract /\ [][NextExtract]_vars

----------------------------------------------------------------------------
(* Vocabulary of the properties.                                           *)

\* the (name, category) identity of a record
Identity(r) == << r.name, r.item_type >>

IdentitySet(v) == { Identity(v[i]) : i \in DOMAIN v }

Range(v) == { v[i] : i \in DOMAIN v }

\* the link tasks have been created
Scheduled ==
    \/ pc \in { "crawl", "group", "write" }
    \/ pc = "exit" /\ res = << "Ok" >> /\ (exit \in { "ok", "err" } \/ DOMAIN task # {})

AllTasksCompleted == \A l \in DOMAIN task : task[l] = "done"

\* link l's fetch returned an error
Failed(l) == resp[l] # << >> /\ ~resp[l][1].ok

\* link l's task came back with Ok
Succeeded(l) == task[l] = "done" /\ results[l] # << >> /\ results[l][1].kind = "Ok"

\* the list link l's task returned (empty if it has not come back with Ok)
Returned(l) == IF results[l] = << >> THEN << >> ELSE results[l][1].products

\* the records handed to the global merge so far, in merge order
RECURSIVE Arrived(_)
Arrived(k) ==
    IF k = 0 THEN << >> ELSE Arrived(k - 1) \o Returned(completed[k])

FirstIndex(v, id) ==
    CHOOSE i \in DOMAIN v :
        Identity(v[i]) = id /\ \A j \in 1 .. (i - 1) : Identity(v[j]) # id

\* the grouping has been computed from the final collection
Aggregated ==
    pc = "write" \/ (pc = "exit" /\ res = << "Ok" >> /\ exit \in { "ok", "err" })

----------------------------------------------------------------------------
(* C1: after any sequence of global merges the collection holds, for every *)
(* (name, category) identity merged so far, exactly one record, and that   *)
(* record is the first one merged with that identity, at the place its     *)
(* first merge gave it; a later record with the same identity changes      *)
(* nothing, whatever its price, link or discount.                          *)
C1_FirstMergedSurvives ==
    LET arr == Arrived(Len(completed))
    IN  /\ \A i, j \in DOMAIN all_items :
             Identity(all_items[i]) = Identity(all_items[j]) => i = j
        /\ IdentitySet(all_items) = IdentitySet(arr)
        /\ \A i \in DOMAIN all_items :
             all_items[i] = arr[FirstIndex(arr, Identity(all_items[i]))]
        /\ \A i, j \in DOMAIN all_items :
             i < j => FirstIndex(arr, Identity(all_items[i]))
                        < FirstIndex(arr, Identity(all_items[j]))

\* a record arrived later with an identity already present and other fields
C1_Witness ==
    LET arr == Arrived(Len(completed))
    IN  /\ Len(completed) = 2
        /\ \E k \in DOMAIN arr : \E i \in DOMAIN all_items :
             /\ Identity(arr[k]) = Identity(all_items[i])
             /\ arr[k] # all_items[i]
             /\ arr[k].price # all_items[i].price

(* C2: a link whose fetch returns an error completes as a dropped result:  *)
(* it never ends the crawl, which goes on with the other links and, once   *)
(* every link has come back, has merged exactly the records the succeeded  *)
(* links returned (one per identity) and ends with a success status when   *)
(* the output is written; the only errors of a run whose landing page was  *)
(* fetched are those of the output write.                                  *)
C2_FetchErrorIsolated ==
    /\ \A l \in DOMAIN resp :
         Failed(l) => (task[l] = "done" /\ results[l] # << >> /\ ~Succeeded(l))
    /\ pc = "crawl" => exit = "running"
    /\ (exit = "err" /\ res = << "Ok" >>) =>
          pc = "exit" /\ AllTasksCompleted /\ output.state # "written"
    /\ (Scheduled /\ AllTasksCompleted) =>
          /\ exit # "panic"
          /\ output.state = "written" <=> exit = "ok"
          /\ \A l \in DOMAIN task : Succeeded(l) \/ Failed(l)
          /\ \A i \in DOMAIN all_items :
               \E l \in DOMAIN task : Succeeded(l) /\ all_items[i] \in Range(Returned(l))
          /\ \A l \in DOMAIN task : Succeeded(l) =>
               IdentitySet(Returned(l)) \subseteq IdentitySet(all_items)
          /\ \A i, j \in DOMAIN all_items :
               Identity(all_items[i]) = Identity(all_items[j]) => i = j

\* one link failed, the other succeeded, the run ended with success
C2_Witness ==
    /\ pc = "exit" /\ exit = "ok"
    /\ Len(task) = 2
    /\ Failed(completed[1]) /\ Succeeded(completed[2])
    /\ all_items = Returned(completed[2])
    /\ Len(all_items) = 2

(* C3: whatever the order in which the link tasks complete, the identities *)
(* in the collection are those of the lists the succeeded tasks returned:  *)
(* a function of the per-link results alone, none lost and none added.     *)
C3_OrderIndependentUnion ==
    Scheduled =>
        IdentitySet(all_items) =
            UNION { IdentitySet(Returned(l)) : l \in { m \in DOMAIN task : Succeeded(m) } }

\* the second link came back first, and both returned a record of one identity
C3_Witness ==
    /\ pc = "exit" /\ exit = "ok"
    /\ completed = << 2, 1 >>
    /\ Succeeded(1) /\ Succeeded(2)
    /\ IdentitySet(Returned(1)) \cap IdentitySet(Returned(2)) # {}
    /\ IdentitySet(Returned(1)) # IdentitySet(Returned(2))

(* C4: when every anchor has an href, the discovered links are exactly the *)
(* root-prefixed hrefs that do not contain "www", each once however often  *)
(* the href repeats; the test is on the href, not on the prefixed URL.     *)
C4_LinkDiscovery ==
    pc = "schedule" =>
        /\ \A i \in DOMAIN document :
             LET h == document[i][1]
                 hits == { k \in DOMAIN uniq_links : uniq_links[k] = ROOT_URL \o h }
             IN  Cardinality(hits) = IF StrContains(h, WWW) THEN 0 ELSE 1
        /\ \A k \in DOMAIN uniq_links :
             \E i \in DOMAIN document :
                /\ ~StrContains(document[i][1], WWW)
                /\ uniq_links[k] = ROOT_URL \o document[i][1]

\* an href repeated, and an href holding "www", on one landing page
C4_Witness ==
    /\ pc = "schedule"
    /\ \E i, j \in DOMAIN document : i # j /\ document[i] = document[j]
                                      /\ ~StrContains(document[i][1], WWW)
    /\ \E i \in DOMAIN document : StrContains(document[i][1], WWW)
    /\ Len(uniq_links) = 1

\* link l's fetched page holds a card whose found name/link node has no href
MissingHrefMet(l) ==
    /\ resp[l] # << >>
    /\ resp[l][1].ok
    /\ \E i \in DOMAIN resp[l][1].page :
         LET c == resp[l][1].page[i]
         IN  c.caption # << >> /\ c.caption[1].href = << >>

(* C5: a found name/link node without href is fatal: once a link task has  *)
(* met one, the run has aborted by panic, that link was not dropped as a   *)
(* completed task, nothing was grouped and no output was written, whatever *)
(* had been merged from other links.                                       *)
C5_MissingHrefFatal ==
    \A l \in DOMAIN resp :
        MissingHrefMet(l) =>
            /\ pc = "exit" /\ exit = "panic"
            /\ task[l] = "pending"
            /\ grouped = EmptyMap
            /\ output.state = "absent"

\* the abort came after records of another link had been merged
C5_Witness ==
    /\ \E l \in DOMAIN resp : MissingHrefMet(l)
    /\ exit = "panic"
    /\ all_items # << >>

----------------------------------------------------------------------------
(* Extraction of one card (SpecExtract).                                   *)

Nodes == { "caption", "form", "price", "promo", "flag" }

NodeOf(card, n) ==
    CASE n = "caption" -> card.caption
      [] n = "form"    -> card.form
      [] n = "price"   -> card.price
      [] n = "promo"   -> card.promo
      [] n = "flag"    -> card.flag

\* the fields of the record a node's sub-extraction writes
FieldsOf(item, n) ==
    CASE n = "caption" -> << item.name, item.link >>
      [] n = "form"    -> << item.item_type >>
      [] n = "price"   -> << item.price >>
      [] n = "promo"   -> << item.price_promo >>
      [] n = "flag"    -> << item.discount >>

\* the card's found name/link node, if any, carries an href
CaptionHasHref(card) == card.caption = << >> \/ card.caption[1].href # << >>

\* the cards with all five nodes present that agree with card where it has a node
Completions(card) ==
    { full \in AllCards :
        /\ \A n \in Nodes : NodeOf(full, n) # << >>
        /\ CaptionHasHref(full)
        /\ \A n \in Nodes : NodeOf(card, n) # << >> => NodeOf(full, n) = NodeOf(card, n) }

Unparseable(node) == node # << >> /\ ParseF32(StripDollar(node[1])) = << >>

\* the record emitted for the card has defaults for missing nodes and for
\* unparseable prices, and elsewhere what the card with all nodes would give
DefaultFilled ==
    /\ \A n \in Nodes :
         NodeOf(product, n) = << >> => FieldsOf(bnb_item, n) = FieldsOf(Default, n)
    /\ Unparseable(product.price) => bnb_item.price = Default.price
    /\ Unparseable(product.promo) => bnb_item.price_promo = Default.price_promo
    /\ \A full \in Completions(product) : \A n \in Nodes :
         NodeOf(product, n) # << >> =>
            FieldsOf(bnb_item, n) = FieldsOf(ProcessProduct(full, Default).item, n)

(* C6 as stated: for every product card, extraction raises no error and    *)
(* emits one record with defaults for the missing nodes and unparseable    *)
(* prices and every other field as with all nodes present.                 *)
C6_AsStated ==
    /\ xpc # "panic"
    /\ xpc = "done" => DefaultFilled

(* C6, amended: the same for every product card whose found name/link     *)
(* node carries an href; a found name/link node without href unwinds.      *)
C6_DefaultFill ==
    /\ CaptionHasHref(product) => xpc # "panic"
    /\ ~CaptionHasHref(product) => xpc \in { "extract_name_and_link", "panic" }
    /\ xpc = "done" => DefaultFilled

\* a card without price node, with an unparseable promo price, extracted
C6_Witness ==
    /\ xpc = "done"
    /\ product.price = << >>
    /\ Unparseable(product.promo)
    /\ product.caption # << >> /\ product.flag # << >>
    /\ bnb_item.name = "A" /\ bnb_item.price = Finite(0)
    /\ bnb_item.discount = "10% off"

----------------------------------------------------------------------------

(* C7: grouping partitions the final collection by discount label: each    *)
(* record is in exactly one group, the one keyed by its own label ("" is a *)
(* key like any other); no group is empty; the group sizes sum to the size *)
(* of the collection; each group keeps the collection's relative order.    *)
RECURSIVE SumOfLens(_, _)
SumOfLens(map, keys) ==
    IF keys = {} THEN 0
    ELSE LET k == CHOOSE x \in keys : TRUE
         IN  Len(map[k]) + SumOfLens(map, keys \ { k })

C7_GroupingPartitions ==
    Aggregated =>
        /\ DOMAIN grouped = { all_items[i].discount : i \in DOMAIN all_items }
        /\ \A k \in DOMAIN grouped :
             /\ grouped[k] # << >>
             /\ grouped[k] = SelectSeq(all_items, LAMBDA r : r.discount = k)
        /\ \A i \in DOMAIN all_items :
             Cardinality({ kj \in { << k, j >> : k \in DOMAIN grouped, j \in 1 .. Len(all_items) } :
                             /\ kj[2] \in DOMAIN grouped[kj[1]]
                             /\ grouped[kj[1]][kj[2]] = all_items[i] }) = 1
        /\ SumOfLens(grouped, DOMAIN grouped) = Len(all_items)
        /\ output.state = "written" => output.data = grouped

\* labels "10% off", "", "10% off" in the collection: two groups, one of two
C7_Witness ==
    /\ Aggregated
    /\ output.state = "written"
    /\ Len(all_items) = 3
    /\ all_items[1].discount = "10% off"
    /\ all_items[2].discount = ""
    /\ all_items[3].discount = "10% off"
    /\ Len(grouped["10% off"]) = 2

(* C8: grouping and output begin only after every scheduled link task has  *)
(* completed; the hand-over happens once (the run never returns to the     *)
(* completion loop and the collection is not changed after it); and once   *)
(* all tasks have completed the run does reach the grouping.               *)
C8_FanInBarrier ==
    /\ [](  (pc \in { "group", "write" } \/ grouped # EmptyMap \/ output.state # "absent")
            => (AllTasksCompleted /\ res = << "Ok" >>) )
    /\ [][ /\ (pc' = "group" /\ pc # "group") => (pc = "crawl" /\ AllTasksCompleted)
           /\ pc \in { "group", "write", "exit" } =>
                 /\ pc' # "crawl"
                 /\ pc # "group" => pc' # "group"
                 /\ all_items' = all_items /\ task' = task
           /\ pc \in { "write", "exit" } => grouped' = grouped ]_vars
    /\ ( (pc = "crawl" /\ AllTasksCompleted) ~> (pc = "group") )

\* the grouping begins after two tasks completed, one of them with a failure
C8_Witness ==
    /\ pc = "group"
    /\ Len(task) = 2
    /\ \E l \in DOMAIN task : Failed(l)
    /\ all_items # << >>

(* C9: no link task exists before the landing page was fetched with        *)
(* success and the links were discovered; a failed landing fetch ends the  *)
(* run with an error, no task and no output; from the scheduling on there  *)
(* is one task per discovered link and neither the links nor the set of    *)
(* tasks change.                                                           *)
C9_LandingFirst ==
    /\ []( /\ (DOMAIN task # {} \/ DOMAIN resp # {}) =>
                 (res = << "Ok" >> /\ pc \in { "crawl", "group", "write", "exit" })
           /\ pc \in { "start", "discover" } => uniq_links = << >>
           /\ res = << "Err" >> =>
                 /\ pc = "exit" /\ exit = "err"
                 /\ uniq_links = << >> /\ task = << >> /\ resp = << >>
                 /\ output.state = "absent"
           /\ pc \in { "crawl", "group", "write" } =>
                 /\ DOMAIN task = DOMAIN uniq_links
                 /\ DOMAIN resp = DOMAIN uniq_links
                 /\ DOMAIN results = DOMAIN uniq_links )
    /\ [][ /\ pc \in { "schedule", "crawl", "group", "write", "exit" } =>
                 uniq_links' = uniq_links
           /\ pc \in { "crawl", "group", "write", "exit" } =>
                 (DOMAIN task' = DOMAIN task /\ DOMAIN resp' = DOMAIN resp) ]_vars

\* two link tasks, scheduled after the landing fetch, one of them completed
C9_Witness ==
    /\ pc = "crawl"
    /\ res = << "Ok" >>
    /\ Len(uniq_links) = 2
    /\ Len(completed) = 1

\* the list link l's task would return without the local dedup
RawReturned(l) == ProductsLoopNoDedup(resp[l][1].page, 1, << >>).products

\* the collection the merges made so far would give on the raw lists
RECURSIVE RawReplay(_)
RawReplay(k) ==
    IF k = 0 THEN << >>
    ELSE IF resp[completed[k]][1].ok
         THEN MergeProducts(RawReplay(k - 1), RawReturned(completed[k]), 1)
         ELSE RawReplay(k - 1)

(* C10: the collection, records and order, is the one the same merges in   *)
(* the same completion order give when every link task returns its raw     *)
(* list of extracted records instead of its locally deduplicated list.     *)
C10_LocalDedupRedundant == all_items = RawReplay(Len(completed))

\* a page repeating an identity was merged after another link's records
C10_Witness ==
    /\ Len(completed) = 2
    /\ Succeeded(completed[1]) /\ Succeeded(completed[2])
    /\ Len(RawReturned(completed[2])) > Len(Returned(completed[2]))
    /\ Len(all_items) >= 2

====
